---- MODULE Spec2Model ----
(***************************************************************************)
(* Model of the cached GitHub client (src/assets/js/api.js, class          *)
(* GitHubAPI) and of the troubleshooting filter of the page renderer       *)
(* (src/unnamed/part_000, Pages.renderTroubleshooting).                    *)
(*                                                                         *)
(* Time is counted in abstract clock units; cacheTime is the TTL in those  *)
(* units (the source's 10 minutes = 600000 ms, scaled).  The clock never   *)
(* goes backwards.  JavaScript values are records with a "type" field so   *)
(* that null, undefined, primitives and objects stay distinguishable.      *)
(* Both cache tiers are keyed by the URL and no operation touches the      *)
(* entry of another URL, so the client is followed on one URL.  The        *)
(* invocations of fetchJson suspended at an await form a bag: any number   *)
(* up to MaxCalls may overlap.                                             *)
(***************************************************************************)
EXTENDS Integers, Sequences, FiniteSets, Bags, TLC

VARIABLES
    now,        \* Date.now()
    cache,      \* this.cache: url -> payload or undefined       (api.js:16)
    storage,    \* localStorage under lsKey(url): url -> raw item (api.js:48)
    calls,      \* bag of the fetchJson invocations suspended at an await
    returned,   \* the fetchJson invocation that ended last
    lastFetch,  \* history: per url, the latest write-through (data, time)
    stored,     \* history: per url, whether its setItem was accepted
    issues,     \* renderTroubleshooting: the fetched issue list
    normalized, \* renderTroubleshooting: the normalized fixes
    activeCat,  \* renderTroubleshooting: the selected chip
    query,      \* renderTroubleshooting: the search text
    items,      \* renderItems: the list shown
    page        \* renderTroubleshooting: "loading" or "ready"

cacheVars == <<now, cache, storage, calls, returned, lastFetch, stored>>
pageVars == <<issues, normalized, activeCat, query, items, page>>
vars == <<now, cache, storage, calls, returned, lastFetch, stored,
          issues, normalized, activeCat, query, items, page>>

----------------------------------------------------------------------------
(* Bounds *)

MaxTime == 4
MaxCalls == 2
MaxSkew == 1
MaxIssues == 2
MaxLabels == 2

(* TTL, api.js:19, in clock units *)
cacheTime == 2

Urls == {"issues"}

(* JSON documents the network can deliver: "0" is the number 0 (falsy),   *)
(* "A" and "B" are two different non-empty documents (truthy).            *)
Data == {"0", "A", "B"}

----------------------------------------------------------------------------
(* JavaScript values *)

JsUndefined == [type |-> "undefined", data |-> "undefined", hasTs |-> FALSE, timestamp |-> 0]
JsNull == [type |-> "null", data |-> "undefined", hasTs |-> FALSE, timestamp |-> 0]
JsNumber == [type |-> "number", data |-> "undefined", hasTs |-> FALSE, timestamp |-> 0]
JsEmptyObject == [type |-> "object", data |-> "undefined", hasTs |-> FALSE, timestamp |-> 0]

\* { data, timestamp: Date.now() }
Payload(d, t) == [type |-> "object", data |-> d, hasTs |-> TRUE, timestamp |-> t]

\* ToBoolean of a value held in a variable
TruthyValue(v) == v.type \notin {"undefined", "null"}

\* ToBoolean of a data field
TruthyData(d) == d \notin {"undefined", "null", "0"}

\* Items of localStorage: getItem gives null for a missing key, else the text
NoItem == [kind |-> "none", value |-> JsUndefined]
Garbage == [kind |-> "garbage", value |-> JsUndefined]
JSONStringify(v) == [kind |-> "json", value |-> v]
JSONParse(raw) ==
    IF raw.kind = "json" THEN [threw |-> FALSE, value |-> raw.value]
    ELSE [threw |-> TRUE, value |-> JsUndefined]

----------------------------------------------------------------------------
(* Cache helpers *)

\* Date.now() - x.timestamp < this.cacheTime; a missing timestamp gives NaN
FreshLe(entry, t) ==
    /\ entry.hasTs
    /\ t - entry.timestamp <= cacheTime

Fresh(entry, t) ==
    /\ entry.hasTs
    /\ t - entry.timestamp < cacheTime

\* readLocalCache without its try/catch
ReadLocalCacheNoCatch(store, url, blocked) ==
    IF blocked THEN [threw |-> TRUE, value |-> JsNull]
    ELSE LET raw == store[url] IN
         IF raw.kind = "none" THEN [threw |-> FALSE, value |-> JsNull]
         ELSE LET p == JSONParse(raw) IN
              IF p.threw THEN [threw |-> TRUE, value |-> JsNull]
              ELSE IF ~TruthyValue(p.value) \/ p.value.type # "object"
                   THEN [threw |-> FALSE, value |-> JsNull]
                   ELSE [threw |-> FALSE, value |-> p.value]

\* readLocalCache(url); blocked: localStorage.getItem throws
ReadLocalCache(store, url, blocked) ==
    IF blocked THEN [threw |-> FALSE, value |-> JsNull]
    ELSE LET raw == store[url] IN
         IF raw.kind = "none" THEN [threw |-> FALSE, value |-> JsNull]
         ELSE LET p == JSONParse(raw) IN
              IF p.threw THEN [threw |-> FALSE, value |-> JsNull]
              ELSE IF ~TruthyValue(p.value) \/ p.value.type # "object"
                   THEN [threw |-> FALSE, value |-> JsNull]
                   ELSE [threw |-> FALSE, value |-> p.value]

\* writeLocalCache that never reaches setItem
WriteLocalCacheDropped(store, url, d, t, rejected) ==
    [threw |-> FALSE, store |-> store]

\* writeLocalCache storing { data } alone
WriteLocalCacheNoTimestamp(store, url, d, t, rejected) ==
    IF rejected THEN [threw |-> FALSE, store |-> store]
    ELSE [threw |-> FALSE,
          store |-> [store EXCEPT ![url] =
                        JSONStringify([JsEmptyObject EXCEPT !.data = d])]]

\* writeLocalCache without its try/catch
WriteLocalCacheNoCatch(store, url, d, t, rejected) ==
    IF rejected THEN [threw |-> TRUE, store |-> store]
    ELSE [threw |-> FALSE,
          store |-> [store EXCEPT ![url] = JSONStringify(Payload(d, t))]]

\* writeLocalCache(url, data) at clock reading t; rejected: setItem throws
WriteLocalCache(store, url, d, t, rejected) ==
    IF rejected THEN [threw |-> FALSE, store |-> store]
    ELSE [threw |-> FALSE,
          store |-> [store EXCEPT ![url] = JSONStringify(Payload(d, t))]]

----------------------------------------------------------------------------
(* fetchJson *)

\* 1) const cached = this.cache[cacheKey]; cached && fresh
MemoryHit(useCache, cached, t) ==
    useCache /\ TruthyValue(cached) /\ Fresh(cached, t)

\* 2) local, fresh or not
LocalHitNoTtl(useCache, local, t) ==
    useCache /\ TruthyValue(local)

\* 2) local && fresh
LocalHit(useCache, local, t) ==
    useCache /\ TruthyValue(local) /\ Fresh(local, t)

\* 4) the catch block: stale local copy or null
FallbackAnyData(useCache, local) ==
    IF useCache /\ TruthyValue(local) THEN local.data ELSE "null"

Fallback(useCache, local) ==
    IF useCache /\ TruthyValue(local) /\ TruthyData(local.data)
    THEN local.data ELSE "null"

\* this.cache[cacheKey] = payload
MemoryWriteNone(mem, url, d, t) == mem

MemoryWrite(mem, url, d, t) == [mem EXCEPT ![url] = Payload(d, t)]

\* this.cache[cacheKey] = local
Hydrate(mem, url, local) == [mem EXCEPT ![url] = local]

\* an invocation suspended at an await: its position and its locals
Pending(pc, url, useCache, local) ==
    [pc |-> pc, url |-> url, useCache |-> useCache, local |-> local]

\* an invocation that is over: how it ended (outcome "value" or "exception"),
\* what it gave, by which path, and whether it issued the GET
Ended(url, useCache, local, outcome, result, via, net) ==
    [url |-> url, useCache |-> useCache, local |-> local,
     outcome |-> outcome, result |-> result, via |-> via, net |-> net]

NoCall == Ended("none", FALSE, JsNull, "none", "none", "none", FALSE)

\* fetchJson(url, useCache) up to `await fetch(...)`
StartCall(url, useCache, blocked) ==
    /\ BagCardinality(calls) < MaxCalls
    /\ LET cached == cache[url] IN
       IF MemoryHit(useCache, cached, now)
       THEN /\ returned' = Ended(url, useCache, JsNull, "value",
                                 cached.data, "memory", FALSE)
            /\ UNCHANGED <<cache, calls>>
       ELSE LET r == IF useCache THEN ReadLocalCache(storage, url, blocked)
                     ELSE [threw |-> FALSE, value |-> JsNull]
                local == r.value
            IN IF r.threw
               THEN /\ returned' = Ended(url, useCache, JsNull, "exception",
                                         "none", "none", FALSE)
                    /\ UNCHANGED <<cache, calls>>
               ELSE IF LocalHit(useCache, local, now)
               THEN /\ cache' = Hydrate(cache, url, local)
                    /\ returned' = Ended(url, useCache, local, "value",
                                         local.data, "local", FALSE)
                    /\ UNCHANGED calls
               ELSE /\ calls' = calls (+)
                          SetToBag({Pending("fetching", url, useCache, local)})
                    /\ UNCHANGED <<cache, returned>>
    /\ UNCHANGED <<now, storage, lastFetch, stored, pageVars>>

\* the catch block reached from the try block of invocation p
Caught(p, kind) ==
    /\ calls' = calls (-) SetToBag({p})
    /\ returned' = Ended(p.url, p.useCache, p.local, "value",
                         Fallback(p.useCache, p.local), kind, TRUE)

\* a catch block that puts the stale local copy into this.cache
FetchFailsHydrating(p, kind) ==
    /\ BagIn(p, calls)
    /\ p.pc = "fetching"
    /\ Caught(p, kind)
    /\ cache' = IF p.useCache /\ TruthyValue(p.local)
                THEN Hydrate(cache, p.url, p.local) ELSE cache
    /\ UNCHANGED <<now, storage, lastFetch, stored, pageVars>>

\* fetch rejects (transport error) or resolves with !response.ok
FetchFails(p, kind) ==
    /\ BagIn(p, calls)
    /\ p.pc = "fetching"
    /\ Caught(p, kind)
    /\ UNCHANGED <<now, cache, storage, lastFetch, stored, pageVars>>

\* fetch resolves with response.ok: on to `await response.json()`
FetchOk(p) ==
    /\ BagIn(p, calls)
    /\ p.pc = "fetching"
    /\ calls' = (calls (-) SetToBag({p}))
                (+) SetToBag({[p EXCEPT !.pc = "parsing"]})
    /\ UNCHANGED <<now, cache, storage, lastFetch, stored, returned, pageVars>>

\* response.json() rejects
JsonFails(p) ==
    /\ BagIn(p, calls)
    /\ p.pc = "parsing"
    /\ Caught(p, "json")
    /\ UNCHANGED <<now, cache, storage, lastFetch, stored, pageVars>>

\* response.json() resolves with d: write-through and return.  The payload
\* of this.cache reads the clock at api.js:115, writeLocalCache reads it
\* again at api.js:66, skew units later.
JsonOk(p, d, rejected, skew) ==
    /\ BagIn(p, calls)
    /\ p.pc = "parsing"
    /\ now + skew <= MaxTime
    /\ IF p.useCache
       THEN LET w == WriteLocalCache(storage, p.url, d, now + skew, rejected)
            IN /\ cache' = MemoryWrite(cache, p.url, d, now)
               /\ storage' = w.store
               /\ now' = now + skew
               /\ lastFetch' = [lastFetch EXCEPT ![p.url] = Payload(d, now)]
               /\ stored' = [stored EXCEPT ![p.url] = ~rejected]
               /\ IF w.threw
                  THEN Caught(p, "storage")
                  ELSE /\ calls' = calls (-) SetToBag({p})
                       /\ returned' = Ended(p.url, p.useCache, p.local,
                                            "value", d, "network", TRUE)
       ELSE /\ skew = 0
            /\ rejected = FALSE
            /\ calls' = calls (-) SetToBag({p})
            /\ returned' = Ended(p.url, p.useCache, p.local,
                                 "value", d, "network", TRUE)
            /\ UNCHANGED <<now, cache, storage, lastFetch, stored>>
    /\ UNCHANGED pageVars

\* time passes
Tick ==
    /\ now < MaxTime
    /\ now' = now + 1
    /\ UNCHANGED <<cache, storage, calls, lastFetch, stored, returned, pageVars>>

----------------------------------------------------------------------------

(* Strings are sequences of characters *)

ToLowerChar(ch) ==
    CASE ch = "A" -> "a" [] ch = "C" -> "c" [] ch = "I" -> "i"
      [] ch = "M" -> "m" [] ch = "N" -> "n" [] ch = "O" -> "o"
      [] ch = "P" -> "p" [] ch = "R" -> "r" [] ch = "W" -> "w"
      [] OTHER -> ch

\* String.prototype.toLowerCase
ToLowerCase(str) == [i \in 1..Len(str) |-> ToLowerChar(str[i])]

\* String.prototype.includes
StringIncludes(str, q) ==
    \E i \in 0..(Len(str) - Len(q)) : SubSeq(str, i + 1, i + Len(q)) = q

\* Array.prototype.includes
ArrayIncludes(arr, x) == \E i \in 1..Len(arr) : arr[i] = x

windows == <<"w", "i", "n", "d", "o", "w", "s">>
macos == <<"m", "a", "c", "o", "s">>
mac == <<"m", "a", "c">>
pro == <<"p", "r", "o">>
macro == <<"m", "a", "c", "r", "o">>
all == <<"a", "l", "l">>

----------------------------------------------------------------------------
(* renderTroubleshooting *)

\* the category of a fix, from its lowercased labels
CategoryProFirst(labels) ==
    IF ArrayIncludes(labels, pro) THEN pro
    ELSE IF ArrayIncludes(labels, windows) THEN windows
    ELSE IF ArrayIncludes(labels, macos) \/ ArrayIncludes(labels, mac) THEN macos
    ELSE IF ArrayIncludes(labels, macro) THEN macro
    ELSE macro

Category(labels) ==
    IF ArrayIncludes(labels, windows) THEN windows
    ELSE IF ArrayIncludes(labels, macos) \/ ArrayIncludes(labels, mac) THEN macos
    ELSE IF ArrayIncludes(labels, pro) THEN pro
    ELSE IF ArrayIncludes(labels, macro) THEN macro
    ELSE macro

\* the .map callback: one issue to one normalized fix
NormalizeIssue(i) ==
    LET labels == [k \in 1..Len(i.labels) |-> ToLowerCase(i.labels[k])] IN
    [number |-> i.number, title |-> i.title, body |-> i.body,
     labels |-> labels, category |-> Category(labels)]

\* issues.filter((i) => !i.pull_request).map(...)
Normalize(list) ==
    LET kept == SelectSeq(list, LAMBDA i : ~i.pull_request) IN
    [k \in 1..Len(kept) |-> NormalizeIssue(kept[k])]

\* matches(item) without the body
MatchesNoBody(item, cat, text) ==
    LET inCat == IF cat = all THEN TRUE ELSE item.category = cat IN
    IF ~inCat THEN FALSE
    ELSE IF text = <<>> THEN TRUE
    ELSE LET q == ToLowerCase(text) IN
         \/ StringIncludes(ToLowerCase(item.title), q)
         \/ \E k \in 1..Len(item.labels) : StringIncludes(item.labels[k], q)

\* matches(item) under the closure's activeCat and query
Matches(item, cat, text) ==
    LET inCat == IF cat = all THEN TRUE ELSE item.category = cat IN
    IF ~inCat THEN FALSE
    ELSE IF text = <<>> THEN TRUE
    ELSE LET q == ToLowerCase(text) IN
         \/ StringIncludes(ToLowerCase(item.title), q)
         \/ StringIncludes(ToLowerCase(item.body), q)
         \/ \E k \in 1..Len(item.labels) : StringIncludes(item.labels[k], q)

\* renderItems(): const items = normalized.filter(matches)
RenderItems(list, cat, text) ==
    SelectSeq(list, LAMBDA item : Matches(item, cat, text))

\* the data-cat values of the chips
Chips == {all, windows, macos, macro, pro}

\* what the user may type in the search box
Queries == {<<>>, <<"m", "i", "c">>, <<"M", "A", "C">>, pro}

\* the page is built: issues fetched, normalized, first renderItems()
RenderTroubleshooting ==
    /\ page = "loading"
    /\ page' = "ready"
    /\ normalized' = Normalize(issues)
    /\ activeCat' = all
    /\ query' = <<>>
    /\ items' = RenderItems(Normalize(issues), all, <<>>)
    /\ UNCHANGED <<issues, cacheVars>>

\* click on a chip
ClickChip(cat) ==
    /\ page = "ready"
    /\ activeCat' = cat
    /\ items' = RenderItems(normalized, cat, query)
    /\ UNCHANGED <<issues, normalized, query, page, cacheVars>>

\* input event of the search box
InputSearch(text) ==
    /\ page = "ready"
    /\ query' = text
    /\ items' = RenderItems(normalized, activeCat, text)
    /\ UNCHANGED <<issues, normalized, activeCat, page, cacheVars>>

PageNext ==
    \/ RenderTroubleshooting
    \/ \E cat \in Chips : ClickChip(cat)
    \/ \E text \in Queries : InputSearch(text)

\* sequences over S of length at most n
SeqUpTo(S, n) == UNION {[1..k -> S] : k \in 0..n}

\* label names as GitHub stores them (case kept)
LabelNames ==
    {windows, macos, mac, pro, macro,
     <<"a", "p", "p", "r", "o", "v", "e", "d">>,
     <<"W", "i", "n", "d", "o", "w", "s">>}

Titles == {<<"M", "i", "c">>, <<"P", "r", "o">>}
Bodies == {<<>>, <<"m", "a", "c">>}
SomeLabelLists == {<<>>, <<pro, <<"W", "i", "n", "d", "o", "w", "s">>>>,
                   <<macos>>, <<macro>>}

\* the issue at position n of the fetched list
Issue(n, title, body, labels, pr) ==
    [number |-> n, title |-> title, body |-> body, labels |-> labels,
     pull_request |-> pr]

CacheIdle ==
    /\ now = 0
    /\ cache = [u \in Urls |-> JsUndefined]
    /\ storage = [u \in Urls |-> NoItem]
    /\ calls = EmptyBag
    /\ returned = NoCall
    /\ lastFetch = [u \in Urls |-> JsUndefined]
    /\ stored = [u \in Urls |-> FALSE]

\* the fetched lists of n issues, numbered in list order
IssueLists(n, labelLists) ==
    {[i \in 1..n |-> Issue(i, f[i].title, f[i].body, f[i].labels, f[i].pr)] :
        f \in [1..n -> [title : Titles, body : Bodies, labels : labelLists,
                        pr : BOOLEAN]]}

PageLoading ==
    /\ normalized = <<>>
    /\ activeCat = all
    /\ query = <<>>
    /\ items = <<>>
    /\ page = "loading"

\* a fetched list of up to MaxIssues issues
FilterInit ==
    /\ CacheIdle
    /\ \E n \in 0..MaxIssues : issues \in IssueLists(n, SomeLabelLists)
    /\ PageLoading

FilterSpec == FilterInit /\ [][PageNext]_vars

\* one fetched issue with any list of up to MaxLabels labels
CategoryInit ==
    /\ CacheIdle
    /\ \E labels \in SeqUpTo(LabelNames, MaxLabels), pr \in BOOLEAN :
         issues = <<Issue(1, <<"M", "i", "c">>, <<>>, labels, pr)>>
    /\ PageLoading

CategorySpec == CategoryInit /\ [][PageNext]_vars

----------------------------------------------------------------------------

\* what an earlier page load may have left in localStorage
InitialItems ==
    {NoItem, Garbage, JSONStringify(JsNumber), JSONStringify(JsEmptyObject)}
    \cup {JSONStringify(Payload(d, 0)) : d \in Data}

PageIdle ==
    /\ issues = <<>>
    /\ PageLoading

Init ==
    /\ now = 0
    /\ cache = [u \in Urls |-> JsUndefined]
    /\ storage \in [Urls -> InitialItems]
    /\ calls = EmptyBag
    /\ returned = NoCall
    /\ lastFetch = [u \in Urls |-> JsUndefined]
    /\ stored = [u \in Urls |-> FALSE]
    /\ PageIdle

Next ==
    \/ \E u \in Urls, uc \in BOOLEAN, b \in BOOLEAN : StartCall(u, uc, b)
    \/ \E p \in BagToSet(calls), k \in {"transport", "status"} :
          FetchFails(p, k)
    \/ \E p \in BagToSet(calls) : FetchOk(p)
    \/ \E p \in BagToSet(calls) : JsonFails(p)
    \/ \E p \in BagToSet(calls), d \in Data, r \in BOOLEAN, s \in 0..MaxSkew :
          JsonOk(p, d, r, s)
    \/ Tick

Spec == Init /\ [][Next]_vars

----------------------------------------------------------------------------
(* Properties of the troubleshooting filter *)

\* C6: the category of every normalized fix is the first of windows, macos,
\* pro, macro (in this order) that one of its lowercased labels names, where
\* macos is named by "macos" or by "mac"; macro when none is named.
C6_CategoryPriority ==
    page = "ready" =>
        \A n \in 1..Len(normalized) :
            LET order == <<windows, macos, pro, macro>>
                names == <<{windows}, {macos, mac}, {pro}, {macro}>>
                labels == {normalized[n].labels[i] :
                              i \in 1..Len(normalized[n].labels)}
                hit == {k \in 1..4 : labels \cap names[k] # {}}
            IN normalized[n].category =
                  IF hit = {} THEN macro
                  ELSE order[CHOOSE k \in hit : \A j \in hit : k <= j]

\* C6 witness: a fix labelled pro and windows, in this order, is a windows fix
C6_ProWindowsIsWindows ==
    /\ page = "ready"
    /\ \E n \in 1..Len(normalized) :
          /\ Len(normalized[n].labels) = 2
          /\ normalized[n].labels[1] = pro
          /\ normalized[n].labels[2] = windows
          /\ normalized[n].category = windows

\* C7: the list shown is exactly the issues that are no pull requests, are of
\* the selected category (or the category is "all") and contain the query,
\* letter case ignored, in the title, the body or a label (or the query is
\* empty), in the order of the fetched list.
C7_FilterIsOrderedSelection ==
    page = "ready" =>
        LET Same(a, b) == ToLowerChar(a) = ToLowerChar(b)
            Within(str, q) ==
                \E off \in 0..(Len(str) - Len(q)) :
                    \A j \in 1..Len(q) : Same(str[off + j], q[j])
            Wanted(i) ==
                /\ ~issues[i].pull_request
                /\ \/ activeCat = all
                   \/ Category([k \in 1..Len(issues[i].labels) |->
                                   ToLowerCase(issues[i].labels[k])])
                         = activeCat
                /\ \/ query = <<>>
                   \/ Within(issues[i].title, query)
                   \/ Within(issues[i].body, query)
                   \/ \E k \in 1..Len(issues[i].labels) :
                         Within(issues[i].labels[k], query)
            idx == {i \in 1..Len(issues) : Wanted(i)}
            Nth(k) == CHOOSE i \in idx :
                         Cardinality({j \in idx : j <= i}) = k
        IN /\ Len(items) = Cardinality(idx)
           /\ \A k \in 1..Len(items) :
                 /\ items[k].number = issues[Nth(k)].number
                 /\ items[k].title = issues[Nth(k)].title
                 /\ items[k].body = issues[Nth(k)].body

\* C7 witness: two issues are fetched, a query typed in upper case and a
\* category are set, and only the second issue is shown
C7_SecondOnlyShown ==
    /\ page = "ready"
    /\ Len(issues) = 2
    /\ activeCat = macos
    /\ query = <<"M", "A", "C">>
    /\ Len(items) = 1
    /\ items[1].number = 2

----------------------------------------------------------------------------
(* Properties of fetchJson *)

\* C1 as stated: two invocations for one URL with caching on, the second
\* made while the first still awaits its response, issue one GET between
\* them: never two such invocations are at an await together.
C1_OneGetForTwoCalls ==
    \A p, q \in BagToSet(calls) :
        (p.url = q.url /\ p.useCache /\ q.useCache) =>
            (p = q /\ CopiesIn(p, calls) = 1)

\* C1 amended: once an invocation for a URL with caching on has fetched and
\* written through, and for less than the TTL after that, an invocation
\* for that URL with caching on issues no GET, and an invocation that ends
\* at once is served from the cache: the two invocations made one GET.
C1_NoGetAfterResolvedFetch ==
    [][\A u \in Urls :
          (TruthyValue(lastFetch[u]) /\ now - lastFetch[u].timestamp < cacheTime)
          => /\ \A p \in BagToSet(calls') :
                   (p.url = u /\ p.useCache /\ p.pc = "fetching")
                   => CopiesIn(p, calls') <= CopiesIn(p, calls)
             /\ (calls' = calls /\ now' = now /\ returned'.url = u
                  /\ returned'.useCache)
                => (~returned'.net /\ returned'.via \in {"memory", "local"})
      ]_vars

\* C1 witness: a fetch was written through and, inside the TTL, a second
\* invocation was served from memory without a GET
C1_SecondServedFromMemory ==
    \E u \in Urls :
        /\ TruthyValue(lastFetch[u])
        /\ now - lastFetch[u].timestamp < cacheTime
        /\ returned.url = u
        /\ returned.useCache
        /\ returned.via = "memory"
        /\ ~returned.net

\* C2 as stated: when the network call of an invocation fails, it gives the
\* data of the durable entry of the URL if there is one, fresh or expired,
\* and null only if there is none.
C2_FailureGivesDurableData ==
    [][(/\ BagCardinality(calls') < BagCardinality(calls)
        /\ returned'.via \in {"transport", "status", "json"})
       => LET item == storage[returned'.url] IN
          IF item.kind = "json" /\ item.value.type = "object"
                /\ item.value.data # "undefined"
          THEN returned'.result = item.value.data
          ELSE returned'.result = "null"
      ]_vars

\* C2 amended: when the network call of an invocation fails, the invocation
\* gives the data of the durable entry it read at its start, fresh or
\* expired, if caching is on, an entry was read and its data is truthy;
\* in every other case (caching off, no entry read, data missing or falsy)
\* it gives null.
C2_FailureGivesReadEntryOrNull ==
    returned.via \in {"transport", "status", "json"} =>
        /\ returned.net
        /\ returned.result =
              IF /\ returned.useCache
                 /\ returned.local.type = "object"
                 /\ returned.local.data \in Data \ {"0"}
              THEN returned.local.data
              ELSE "null"

\* C2 witness: the GET failed and the expired durable entry read at the
\* start was given
C2_ExpiredEntryGiven ==
    /\ returned.via \in {"transport", "status", "json"}
    /\ returned.local.hasTs
    /\ now - returned.local.timestamp >= cacheTime
    /\ returned.result = returned.local.data
    /\ storage[returned.url] = JSONStringify(returned.local)

\* C3: no invocation ends with an exception: each ends with a value, which
\* is a JSON document or null, whatever fails (transport, status, body
\* parse, reading or writing localStorage).
C3_NeverThrows ==
    /\ returned.outcome # "exception"
    /\ returned.outcome = "value" => returned.result \in Data \cup {"null"}

\* C3 witness: localStorage held an unparsable item, the GET failed as well,
\* and the invocation ended with null
C3_UnparsableAndFailedGivesNull ==
    /\ returned.useCache
    /\ storage[returned.url] = Garbage
    /\ returned.via \in {"transport", "status", "json"}
    /\ returned.outcome = "value"
    /\ returned.result = "null"

\* C4: an invocation with caching on that is made less than the TTL after
\* the latest write-through for its URL gives exactly the data written.
C4_RoundTripWithinTtl ==
    [][\A u \in Urls :
          (/\ TruthyValue(lastFetch[u])
           /\ now - lastFetch[u].timestamp < cacheTime
           /\ calls' = calls /\ now' = now
           /\ returned'.url = u /\ returned'.useCache)
          => (returned'.outcome = "value"
                /\ returned'.result = lastFetch[u].data)
      ]_vars

\* C4 witness: a later invocation, inside the TTL, was given the data
\* written, here the falsy document
C4_FalsyDataReadBack ==
    \E u \in Urls :
        /\ TruthyValue(lastFetch[u])
        /\ lastFetch[u].data = "0"
        /\ now > lastFetch[u].timestamp
        /\ now - lastFetch[u].timestamp < cacheTime
        /\ returned.url = u
        /\ returned.via = "memory"
        /\ returned.result = "0"

\* C5: an invocation that ends without a GET was served an entry younger
\* than the TTL, from memory or from localStorage; so whenever the TTL or
\* more has passed since the entry's timestamp the GET is issued, and an
\* expired entry's data is only given after the GET has failed.
C5_HitsAreFresh ==
    [][(calls' = calls /\ now' = now /\ returned'.outcome = "value")
       => LET u == returned'.url
              entry == IF returned'.via = "memory" THEN cache[u]
                       ELSE storage[u].value
          IN /\ returned'.via \in {"memory", "local"}
             /\ returned'.useCache
             /\ entry.hasTs
             /\ now - entry.timestamp < cacheTime
             /\ returned'.result = entry.data
      ]_vars

\* C5 witness: both tiers hold an entry exactly TTL old and the invocation
\* is at its await, the GET issued
C5_ExpiredEntryGoesToNetwork ==
    \E p \in BagToSet(calls) :
        /\ p.useCache
        /\ TruthyValue(cache[p.url])
        /\ now - cache[p.url].timestamp = cacheTime
        /\ p.local.hasTs
        /\ now - p.local.timestamp = cacheTime

\* C8: in no step does the entry of a URL disappear or get an older
\* timestamp, in this.cache and in localStorage.
C8_TimestampsNeverDecrease ==
    [][\A u \in Urls :
          /\ TruthyValue(cache[u]) =>
                /\ TruthyValue(cache'[u])
                /\ cache[u].hasTs => /\ cache'[u].hasTs
                                     /\ cache'[u].timestamp >= cache[u].timestamp
          /\ (storage[u].kind = "json" /\ storage[u].value.hasTs) =>
                /\ storage'[u].kind = "json"
                /\ storage'[u].value.hasTs
                /\ storage'[u].value.timestamp >= storage[u].value.timestamp
      ]_vars

\* C8 witness: memory was first written, then hydrated from a younger
\* durable entry, and the clock has moved on
C8_HydratedOverOlderEntry ==
    \E u \in Urls :
        /\ returned.via = "local"
        /\ returned.url = u
        /\ TruthyValue(lastFetch[u])
        /\ cache[u] = returned.local
        /\ cache[u].timestamp > lastFetch[u].timestamp

C10_DurableFailureIgnored ==
    [][/\ (/\ BagCardinality(calls') < BagCardinality(calls)
           /\ returned'.net
           /\ returned'.useCache
           /\ returned'.via \notin {"transport", "status", "json"})
          => /\ returned'.outcome = "value"
             /\ cache'[returned'.url] = Payload(returned'.result, now)
       /\ \A u \in Urls :
             (/\ TruthyValue(lastFetch[u])
              /\ now - lastFetch[u].timestamp < cacheTime
              /\ \/ storage[u].kind # "json"
                 \/ storage[u].value.data # lastFetch[u].data
                 \/ storage[u].value.timestamp < lastFetch[u].timestamp)
             => /\ \A p \in BagToSet(calls') :
                      (p.url = u /\ p.useCache /\ p.pc = "fetching")
                      => CopiesIn(p, calls') <= CopiesIn(p, calls)
                /\ (calls' = calls /\ now' = now /\ returned'.url = u
                      /\ returned'.useCache)
                   => (returned'.via = "memory"
                         /\ returned'.result = lastFetch[u].data)
      ]_vars

\* C10 witness: the item of localStorage is still unparsable after a fetch,
\* and a later invocation inside the TTL was served the fetch from memory
C10_ServedFromMemoryOnly ==
    \E u \in Urls :
        /\ storage[u] = Garbage
        /\ TruthyValue(lastFetch[u])
        /\ now > lastFetch[u].timestamp
        /\ returned.url = u
        /\ returned.via = "memory"
        /\ returned.result = lastFetch[u].data

\* C11 as stated: when the GET fails and the invocation answers from the
\* stale fallback, it gives the data of the latest fetch that this client
\* wrote through for the URL.
C11_StaleIsLatestFetch ==
    [][(/\ BagCardinality(calls') < BagCardinality(calls)
        /\ returned'.via \in {"transport", "status", "json"}
        /\ returned'.result # "null"
        /\ TruthyValue(lastFetch[returned'.url]))
       => returned'.result = lastFetch[returned'.url].data
      ]_vars

\* C11 amended: the stale fallback gives the data of the durable entry that
\* the invocation read at its start.  That is the data of the latest fetch
\* written through when the setItem of that fetch was accepted and the
\* entry of localStorage is still the one the invocation read; after a
\* dropped setItem, or for an invocation that read before the latest
\* write-through, it is the data of an older entry.
C11_StaleIsEntryRead ==
    [][(/\ BagCardinality(calls') < BagCardinality(calls)
        /\ returned'.via \in {"transport", "status", "json"}
        /\ returned'.result # "null")
       => LET u == returned'.url IN
          /\ returned'.useCache
          /\ returned'.result = returned'.local.data
          /\ (/\ TruthyValue(lastFetch[u])
              /\ stored[u]
              /\ storage[u] = JSONStringify(returned'.local))
             => returned'.result = lastFetch[u].data
      ]_vars

\* C11 witness: the latest fetch reached localStorage, expired, and a later
\* invocation whose GET failed was given its data
C11_LatestFetchGivenStale ==
    \E u \in Urls :
        /\ returned.url = u
        /\ returned.via \in {"transport", "status", "json"}
        /\ TruthyValue(lastFetch[u])
        /\ stored[u]
        /\ now - lastFetch[u].timestamp >= cacheTime
        /\ returned.local.timestamp >= lastFetch[u].timestamp
        /\ returned.result = lastFetch[u].data

====
